---- MODULE Spec2Model ----
(***************************************************************************)
(* The tabular cache and query layer of ebayMasterApp (src/app.py) and its *)
(* remote fetcher (src/onedrive.py), as a state machine.  Flask serves     *)
(* each request on its own thread, so a handler is a sequence of steps     *)
(* that interleave with the steps of the other handlers at every access of *)
(* the shared module-level dictionaries.                                   *)
(***************************************************************************)
EXTENDS Integers, Sequences, FiniteSets, TLC

\* ------------------------------------------------------------ constants
HEADER_ROW == 5
DATA_START_ROW == 6
MAX_COL == 28
CACHE_TTL == 300
\* get_range: the literal 100 of "if row_end - row_start > 100"
MAX_SPAN == 100

\* ------------------------------------------------------------ bounds
\* number of clock advances in a behaviour
MaxTicks == 1
\* largest modification time the local file reaches (it grows per save)
MaxMtime == 2
\* largest number of rows of a worksheet handed to the parser on its own
MaxSheetRows == 3

\* ------------------------------------------------------- Python values
\* Optional values: None is the empty tuple, any other value x is <<x>>.
PyNone == <<>>
Some(x) == <<x>>
IsNone(o) == o = <<>>
Val(o) == o[1]

\* Cell values as openpyxl hands them over: absent, float (kept in tenths),
\* int, bool, text (a sequence of characters).
CNone == [t |-> "none", n |-> 0, s |-> <<>>]
CFloat(tenths) == [t |-> "float", n |-> tenths, s |-> <<>>]
CInt(i) == [t |-> "int", n |-> i, s |-> <<>>]
CBool(b) == [t |-> "bool", n |-> IF b THEN 1 ELSE 0, s |-> <<>>]
CStr(chars) == [t |-> "str", n |-> 0, s |-> chars]

Digit(d) == <<"0", "1", "2", "3", "4", "5", "6", "7", "8", "9">>[d + 1]

\* str(int) of a non-negative int: its decimal digits
RECURSIVE IntStr(_)
IntStr(i) == IF i < 10 THEN <<Digit(i)>> ELSE IntStr(i \div 10) \o <<Digit(i % 10)>>

\* str(value) of Python for the cell value kinds (never called on None)
PyStr(v) ==
    CASE v.t = "float" -> IntStr(v.n \div 10) \o <<".">> \o IntStr(v.n % 10)
      [] v.t = "int" -> IntStr(v.n)
      [] v.t = "bool" -> IF v.n = 1 THEN <<"T", "r", "u", "e">>
                         ELSE <<"F", "a", "l", "s", "e">>
      [] v.t = "str" -> v.s

\* truth value of a cell value ("val or ...")
Truthy(v) ==
    CASE v.t = "none" -> FALSE
      [] v.t = "float" -> v.n # 0
      [] v.t = "int" -> v.n # 0
      [] v.t = "bool" -> v.n = 1
      [] v.t = "str" -> Len(v.s) > 0

\* str.strip(): leading and trailing blanks removed
RECURSIVE LStrip(_)
LStrip(s) == IF Len(s) > 0 /\ Head(s) = " " THEN LStrip(Tail(s)) ELSE s
RECURSIVE RStrip(_)
RStrip(s) == IF Len(s) > 0 /\ s[Len(s)] = " " THEN RStrip(SubSeq(s, 1, Len(s) - 1)) ELSE s
Strip(s) == RStrip(LStrip(s))

\* "q in s": q occurs in s as a contiguous substring
Contains(s, q) ==
    \E i \in 1..(Len(s) - Len(q) + 1) : SubSeq(s, i, i + Len(q) - 1) = q

\* openpyxl.utils.get_column_letter
Alphabet ==
    <<"A", "B", "C", "D", "E", "F", "G", "H", "I", "J", "K", "L", "M",
      "N", "O", "P", "Q", "R", "S", "T", "U", "V", "W", "X", "Y", "Z">>
RECURSIVE ColumnLetter(_)
ColumnLetter(col) ==
    IF col <= 26 THEN <<Alphabet[col]>>
    ELSE ColumnLetter((col - 1) \div 26) \o <<Alphabet[((col - 1) % 26) + 1]>>

\* ------------------------------------------------------------ workbooks
\* The documents the source (local file or share link) can hold.  A
\* worksheet is what ws.iter_rows yields: rows HEADER_ROW..LastRow(d), each
\* MAX_COL cells wide.
T_No == <<"N", "o">>
T_ID == <<"I", "D">>
T_Name == <<"N", "a", "m", "e">>
T_123 == <<" ", "1", "2", "3", " ">>
T_z == <<"z">>

GoodDocs == {"small", "big", "empty"}
Docs == GoodDocs \cup {"nosheet"}
\* the documents the environment publishes while the server runs
EnvDocs == {"small", "big", "nosheet"}

LastRow(d) ==
    CASE d = "small" -> 10
      [] d = "big" -> 110
      [] OTHER -> HEADER_ROW - 1

CellOf(d, r, c) ==
    CASE d = "small" /\ r = 5 /\ c = 1 -> CStr(T_No)
      [] d = "small" /\ r = 5 /\ c = 2 -> CStr(T_ID)
      [] d = "small" /\ r = 5 /\ c = 3 -> CInt(0)
      [] d = "small" /\ r = 6 /\ c = 1 -> CInt(1)
      [] d = "small" /\ r = 6 /\ c = 2 -> CFloat(123450)
      [] d = "small" /\ r = 7 /\ c = 2 -> CFloat(123455)
      [] d = "small" /\ r = 7 /\ c = 3 -> CBool(FALSE)
      [] d = "small" /\ r = 9 /\ c = 1 -> CInt(0)
      [] d = "big" /\ r = 5 /\ c = 1 -> CStr(T_Name)
      [] d = "big" /\ r = 6 /\ c = 2 -> CStr(T_123)
      [] d = "big" /\ r = 7 /\ c = 2 -> CInt(1234)
      [] d = "big" /\ r = 110 /\ c = MAX_COL -> CStr(T_z)
      [] OTHER -> CNone

HasSheet(d) == d \in GoodDocs

\* ---------------------------------------------------- _parse_workbook
\* "values = [cell.value for cell in row]"
RowValues(d, r) == [c \in 1..MAX_COL |-> CellOf(d, r, c)]

\* "if any(values)": the truth value of the cells in place of "is not None"
AnyValue_Truthy(values) == \E c \in 1..Len(values) : Truthy(values[c])

\* "if any(v is not None for v in values)"
AnyValue(values) == \E c \in 1..Len(values) : values[c] # CNone

\* the rows the loop stores: those that are not all-empty
StoredRows(d) == {r \in HEADER_ROW..LastRow(d) : AnyValue(RowValues(d, r))}

\* the dictionary rows_data after the loop
ParsedRows(d) == [r \in StoredRows(d) |-> RowValues(d, r)]

\* max_data_row after the loop: HEADER_ROW, overwritten by every stored row
\* in turn; the rows come in ascending order, so the last one stored is the
\* largest
MaxDataRow(d) ==
    IF StoredRows(d) = {} THEN HEADER_ROW
    ELSE CHOOSE r \in StoredRows(d) : \A r2 \in StoredRows(d) : r2 <= r

\* dict.get(key, default)
DictGet(dict, key, default) == IF key \in DOMAIN dict THEN dict[key] ELSE default

HeaderName(val, letter) ==
    IF Truthy(val) THEN val ELSE CStr(<<"(">> \o letter \o <<")">>)

BuildHeaders(rows_data) ==
    LET header_values == DictGet(rows_data, HEADER_ROW, [c \in 1..MAX_COL |-> CNone])
    IN  [col \in 1..MAX_COL |->
            [col |-> col,
             letter |-> ColumnLetter(col),
             name |-> HeaderName(IF col <= Len(header_values) THEN header_values[col]
                                 ELSE CNone,
                                 ColumnLetter(col))]]

\* the triple (rows_data, headers, max_data_row) _parse_workbook returns
ParseWorkbook(d) ==
    LET rows_data == ParsedRows(d)
    IN  [rows_data |-> rows_data,
         headers |-> BuildHeaders(rows_data),
         max_row |-> MaxDataRow(d)]

\* The objects a parse creates are never modified afterwards, so the state
\* holds a reference to them: Some(d) is "the rows_data (or the headers)
\* parsed from document d", and Parsed[d] is what the reference points to.
Parsed ==
    [small |-> ParseWorkbook("small"), big |-> ParseWorkbook("big"),
     empty |-> ParseWorkbook("empty")]
RowsOf(ref) == IF IsNone(ref) THEN PyNone ELSE Some(Parsed[Val(ref)].rows_data)
HeadersOf(ref) == IF IsNone(ref) THEN PyNone ELSE Some(Parsed[Val(ref)].headers)

\* ---------------------------------------------------------------- state
Threads == {"t1", "t2"}
\* the browsers, each with its own session cookie
Clients == {"a", "b"}

VARIABLES
    APP_PASSWORD, \* app.APP_PASSWORD: "" when the environment sets none
    session,     \* per browser: the session its cookie carries
    client,      \* the browser whose request the server accepts next
    share_url,   \* ONEDRIVE_SHARE_URL is set (TRUE) or empty (FALSE)
    XLSM_PATH,   \* app.XLSM_PATH: PyNone or Some("xlsm")
    cache,       \* app._cache
    od,          \* onedrive._cache: data (the document held), fetched_at
    file,        \* the local workbook file: exists, mtime, doc
    now,         \* time.time()
    ticks,       \* clock advances so far
    fetched,     \* per thread: session.get was called while its request was served
    pc,          \* per thread: position of the request it serves
    req,         \* per thread: the request (endpoint and arguments)
    loc,         \* per thread: the handler's local variables
    resp,        \* per thread: the response of its last request
    ws,          \* _parse_workbook: the rows ws.iter_rows yields
    pw           \* _parse_workbook: its local variables

vars == <<APP_PASSWORD, session, client, share_url, XLSM_PATH, cache, od,
          file, now, ticks, fetched, pc, req, loc, resp, ws, pw>>

\* what no step of a protected handler writes
env_vars == <<APP_PASSWORD, session, client, file, now, ticks, ws, pw>>

\* the clock starts well after the epoch, as time.time() does
StartTime == 4 * CACHE_TTL
TickStep == CACHE_TTL

NoReq == [op |-> "none", col |-> 0, row |-> 0, row_start |-> 0, row_end |-> 0, q |-> <<>>]
\* "before" is no variable of the code: it records the cache entry as it
\* was when the request arrived, for the claims that compare the cache
\* before and after an operation
NoLoc ==
    [mtime |-> PyNone, buf |-> PyNone, rows_data |-> PyNone, headers |-> PyNone,
     max_row |-> PyNone, before |-> PyNone]
NoResp == [status |-> 0]

\* _parse_workbook before its loop (lines 48-49); i is the position of
\* the row iterator
PwStart ==
    [i |-> 1, rows_data |-> <<>>, max_data_row |-> HEADER_ROW,
     headers |-> PyNone, returned |-> FALSE]

InitCache ==
    [rows_data |-> PyNone, headers |-> PyNone, mtime |-> PyNone,
     source |-> "None", max_row |-> 0]
InitOd == [data |-> PyNone, fetched_at |-> 0]
\* a browser that never logged in: session.get("authenticated") is None
NoSession == [authenticated |-> PyNone]
InitSession == [c \in Clients |-> NoSession]

\* _find_xlsm(): the first match of the glob, None when there is none
FindXlsm(f) == IF f.exists THEN Some("xlsm") ELSE PyNone

\* the server started without APP_PASSWORD in its environment (line 16:
\* the default ""), where login_required lets every request through
Init ==
    /\ APP_PASSWORD = ""
    /\ session = InitSession
    /\ client = "a"
    /\ share_url \in BOOLEAN
    /\ IF share_url
       THEN file = [exists |-> FALSE, mtime |-> 0, doc |-> "empty"]
       ELSE file \in {[exists |-> FALSE, mtime |-> 0, doc |-> "empty"]}
                     \cup {[exists |-> TRUE, mtime |-> 1, doc |-> d] : d \in EnvDocs}
    /\ XLSM_PATH = FindXlsm(file)
    /\ cache = InitCache
    /\ od = InitOd
    /\ now = StartTime
    /\ ticks = 0
    /\ ws = <<>>
    /\ pw = PwStart
    /\ fetched = [t \in Threads |-> FALSE]
    /\ pc = [t \in Threads |-> "idle"]
    /\ req = [t \in Threads |-> NoReq]
    /\ loc = [t \in Threads |-> NoLoc]
    /\ resp = [t \in Threads |-> NoResp]

\* ---------------------------------------------------------- environment
\* time passes (only the remote strategy reads the clock)
Tick ==
    /\ share_url
    /\ ticks < MaxTicks
    /\ now' = now + TickStep
    /\ ticks' = ticks + 1
    /\ UNCHANGED <<share_url, XLSM_PATH, cache, od, file, fetched,
                   pc, req, loc, resp, ws, pw, APP_PASSWORD, session, client>>

\* the workbook file is saved with new content: its mtime changes
WriteFile(d) ==
    /\ ~share_url
    /\ file.mtime < MaxMtime
    /\ file' = [exists |-> TRUE, mtime |-> file.mtime + 1, doc |-> d]
    /\ UNCHANGED <<share_url, XLSM_PATH, cache, od, now, ticks, fetched,
                   pc, req, loc, resp, ws, pw, APP_PASSWORD, session, client>>

\* the workbook file is removed
DeleteFile ==
    /\ ~share_url
    /\ file.exists
    /\ file' = [file EXCEPT !.exists = FALSE]
    /\ UNCHANGED <<share_url, XLSM_PATH, cache, od, now, ticks, fetched,
                   pc, req, loc, resp, ws, pw, APP_PASSWORD, session, client>>

\* -------------------------------------------- _parse_workbook on its own
\* The rows a worksheet can hold, by what is in them; each is MAX_COL wide.
RowKinds == {"none", "zero", "false", "text", "last"}
RowOfKind(k) ==
    [c \in 1..MAX_COL |->
        CASE k = "zero" /\ c = 3 -> CInt(0)
          [] k = "false" /\ c = 2 -> CBool(FALSE)
          [] k = "text" /\ c = 1 -> CStr(T_ID)
          [] k = "last" /\ c = MAX_COL -> CStr(T_z)
          [] OTHER -> CNone]
\* worksheets of up to MaxSheetRows rows, the first being row HEADER_ROW
Sheets == UNION {[1..n -> RowKinds] : n \in 0..MaxSheetRows}

\* lines 50-56: one turn of the loop over ws.iter_rows(min_row=HEADER_ROW)
PwRow ==
    /\ ~pw.returned
    /\ pw.i <= Len(ws)
    /\ LET r == HEADER_ROW + pw.i - 1
           values == RowOfKind(ws[pw.i])
       IN  pw' = IF AnyValue(values)
                 THEN [pw EXCEPT !.i = @ + 1,
                                 !.rows_data = [x \in DOMAIN @ \cup {r} |->
                                                  IF x = r THEN values ELSE @[x]],
                                 !.max_data_row = r]
                 ELSE [pw EXCEPT !.i = @ + 1]
    /\ UNCHANGED <<share_url, XLSM_PATH, cache, od, file, now, ticks, fetched,
                   pc, req, loc, resp, ws, APP_PASSWORD, session, client>>

\* lines 59-67: the loop is over; the headers are built and the triple
\* (rows_data, headers, max_data_row) is returned
PwReturn ==
    /\ ~pw.returned
    /\ pw.i > Len(ws)
    /\ pw' = [pw EXCEPT !.headers = Some(BuildHeaders(pw.rows_data)),
                        !.returned = TRUE]
    /\ UNCHANGED <<share_url, XLSM_PATH, cache, od, file, now, ticks, fetched,
                   pc, req, loc, resp, ws, APP_PASSWORD, session, client>>

\* ------------------------------------------------------------- helpers
\* an unhandled exception: Flask answers 500
Raise(t, what) ==
    /\ resp' = [resp EXCEPT ![t] = [status |-> 500, error |-> what]]
    /\ pc' = [pc EXCEPT ![t] = "done"]

\* onedrive._is_cache_fresh()
IsCacheFresh == ~IsNone(od.data) /\ (now - od.fetched_at) < CACHE_TTL

\* dict.update(rows_data=..., headers=..., mtime=..., source=..., max_row=...)
\* with the triple parsed from document d
CacheUpdate(d, mtime, source) ==
    [rows_data |-> Some(d), headers |-> Some(d),
     mtime |-> mtime, source |-> source, max_row |-> Parsed[d].max_row]

\* where get_data() starts: _get_data_onedrive or _get_data_local
GetDataEntry == IF share_url THEN "od_check" ELSE "loc_stat"

\* ---------------------------------------------------- _get_data_onedrive
\* the test of line 81 without the question to the fetcher
OdCheck_NoFresh(t) ==
    /\ pc[t] = "od_check"
    /\ pc' = [pc EXCEPT ![t] =
                IF cache.source = "onedrive" /\ ~IsNone(cache.rows_data)
                THEN "ret_rows" ELSE "fx_check"]
    /\ UNCHANGED <<share_url, XLSM_PATH, cache, od, fetched, req, loc, resp, env_vars>>

\* line 81: the freshness test of the Sheet Cache
OdCheck(t) ==
    /\ pc[t] = "od_check"
    /\ pc' = [pc EXCEPT ![t] =
                IF cache.source = "onedrive" /\ ~IsNone(cache.rows_data) /\ IsCacheFresh
                THEN "ret_rows" ELSE "fx_check"]
    /\ UNCHANGED <<share_url, XLSM_PATH, cache, od, fetched, req, loc, resp, env_vars>>

\* fetch_xlsm, line 41: fresh bytes are reused, otherwise session.get is called
FxCheck(t) ==
    /\ pc[t] = "fx_check"
    /\ IF IsCacheFresh
       THEN /\ pc' = [pc EXCEPT ![t] = "fx_cached"]
            /\ UNCHANGED fetched
       ELSE /\ fetched' = [u \in Threads |-> fetched[u] \/ pc[u] \notin {"idle", "done"}]
            /\ pc' = [pc EXCEPT ![t] = "http_get"]
    /\ UNCHANGED <<share_url, XLSM_PATH, cache, od, req, loc, resp, env_vars>>

\* fetch_xlsm, lines 42-43: _cache["data"].seek(0); return _cache["data"]
FxCached(t) ==
    /\ pc[t] = "fx_cached"
    /\ IF IsNone(od.data)
       THEN /\ Raise(t, "AttributeError: data")
            /\ UNCHANGED loc
       ELSE /\ loc' = [loc EXCEPT ![t].buf = od.data]
            /\ pc' = [pc EXCEPT ![t] = "od_parse"]
            /\ UNCHANGED resp
    /\ UNCHANGED <<share_url, XLSM_PATH, cache, od, fetched, req, env_vars>>

\* fetch_xlsm, lines 48-73: the download succeeds and is cached; d is the
\* document behind the share link at that moment
HttpOk(t, d) ==
    /\ pc[t] = "http_get"
    /\ od' = [data |-> Some(d), fetched_at |-> now]
    /\ loc' = [loc EXCEPT ![t].buf = Some(d)]
    /\ pc' = [pc EXCEPT ![t] = "od_parse"]
    /\ UNCHANGED <<share_url, XLSM_PATH, cache, fetched, req, resp, env_vars>>

\* fetch_xlsm, lines 48-49: the download fails (timeout, HTTP error)
HttpFail(t) ==
    /\ pc[t] = "http_get"
    /\ Raise(t, "RequestException")
    /\ UNCHANGED <<share_url, XLSM_PATH, cache, od, fetched, req, loc, env_vars>>

\* lines 85-88: parse the bytes, replace the cache entry, return the parse
OdParse(t) ==
    /\ pc[t] = "od_parse"
    /\ IF HasSheet(Val(loc[t].buf))
       THEN /\ cache' = CacheUpdate(Val(loc[t].buf), PyNone, "onedrive")
            /\ loc' = [loc EXCEPT ![t].rows_data = loc[t].buf,
                                  ![t].headers = loc[t].buf]
            /\ pc' = [pc EXCEPT ![t] = "finish"]
            /\ UNCHANGED resp
       ELSE /\ Raise(t, "KeyError")
            /\ UNCHANGED <<cache, loc>>
    /\ UNCHANGED <<share_url, XLSM_PATH, od, fetched, req, env_vars>>

\* lines 82 and 110: "return _cache["rows_data"], _cache["headers"]" reads
\* the two entries one after the other
RetRows(t) ==
    /\ pc[t] = "ret_rows"
    /\ loc' = [loc EXCEPT ![t].rows_data = cache.rows_data]
    /\ pc' = [pc EXCEPT ![t] = "ret_hdrs"]
    /\ UNCHANGED <<share_url, XLSM_PATH, cache, od, fetched, req, resp, env_vars>>

RetHdrs(t) ==
    /\ pc[t] = "ret_hdrs"
    /\ loc' = [loc EXCEPT ![t].headers = cache.headers]
    /\ pc' = [pc EXCEPT ![t] = "finish"]
    /\ UNCHANGED <<share_url, XLSM_PATH, cache, od, fetched, req, resp, env_vars>>

\* ------------------------------------------------------ _get_data_local
\* a missing file cached as a snapshot without rows before the error
LocStat_CacheEmpty(t) ==
    /\ pc[t] = "loc_stat"
    /\ LET path == IF IsNone(XLSM_PATH) THEN FindXlsm(file) ELSE XLSM_PATH
       IN  /\ XLSM_PATH' = path
           /\ IF IsNone(path) \/ ~file.exists
              THEN /\ Raise(t, "FileNotFoundError")
                   /\ cache' = CacheUpdate("empty", PyNone, "local")
                   /\ UNCHANGED loc
              ELSE /\ loc' = [loc EXCEPT ![t].mtime = Some(file.mtime)]
                   /\ pc' = [pc EXCEPT ![t] = "loc_check"]
                   /\ UNCHANGED <<resp, cache>>
    /\ UNCHANGED <<share_url, od, fetched, req, env_vars>>

\* lines 100-105: resolve the path, read the file's modification time
LocStat(t) ==
    /\ pc[t] = "loc_stat"
    /\ LET path == IF IsNone(XLSM_PATH) THEN FindXlsm(file) ELSE XLSM_PATH
       IN  /\ XLSM_PATH' = path
           /\ IF IsNone(path) \/ ~file.exists
              THEN /\ Raise(t, "FileNotFoundError")
                   /\ UNCHANGED loc
              ELSE /\ loc' = [loc EXCEPT ![t].mtime = Some(file.mtime)]
                   /\ pc' = [pc EXCEPT ![t] = "loc_check"]
                   /\ UNCHANGED resp
    /\ UNCHANGED <<share_url, cache, od, fetched, req, env_vars>>

\* a staleness test that asks for a rebuild on every access
LocalStale_Always(c, mtime) == TRUE

\* line 106: the staleness test of the local strategy
LocalStale(c, mtime) == c.mtime # mtime \/ c.source # "local"

LocCheck(t) ==
    /\ pc[t] = "loc_check"
    /\ pc' = [pc EXCEPT ![t] =
                IF LocalStale(cache, loc[t].mtime) THEN "loc_load" ELSE "ret_rows"]
    /\ UNCHANGED <<share_url, XLSM_PATH, cache, od, fetched, req, loc, resp, env_vars>>

\* a rebuild that keeps the marker the cache entry had
LocLoad_KeepMarker(t) ==
    /\ pc[t] = "loc_load"
    /\ IF ~file.exists
       THEN /\ Raise(t, "FileNotFoundError")
            /\ UNCHANGED cache
       ELSE IF ~HasSheet(file.doc)
       THEN /\ Raise(t, "KeyError")
            /\ UNCHANGED cache
       ELSE /\ cache' = CacheUpdate(file.doc, cache.mtime, "local")
            /\ pc' = [pc EXCEPT ![t] = "ret_rows"]
            /\ UNCHANGED resp
    /\ UNCHANGED <<share_url, XLSM_PATH, od, fetched, req, loc, env_vars>>

\* lines 107-109: open and parse the file, replace the cache entry
LocLoad(t) ==
    /\ pc[t] = "loc_load"
    /\ IF ~file.exists
       THEN /\ Raise(t, "FileNotFoundError")
            /\ UNCHANGED cache
       ELSE IF ~HasSheet(file.doc)
       THEN /\ Raise(t, "KeyError")
            /\ UNCHANGED cache
       ELSE /\ cache' = CacheUpdate(file.doc, loc[t].mtime, "local")
            /\ pc' = [pc EXCEPT ![t] = "ret_rows"]
            /\ UNCHANGED resp
    /\ UNCHANGED <<share_url, XLSM_PATH, od, fetched, req, loc, env_vars>>

\* --------------------------------------------------------- Query Engine
Max(a, b) == IF a >= b THEN a ELSE b
Min(a, b) == IF a <= b THEN a ELSE b

\* "str(val) if val is not None else None": JSON null is PyNone
Render(val) == IF val = CNone THEN PyNone ELSE Some(PyStr(val))

\* get_cell line 201 / get_range line 266:
\* "row_values[col] if row_values and col < len(row_values) else None"
CellAt(row_values, col) ==
    IF ~IsNone(row_values) /\ Len(Val(row_values)) > 0 /\ col <= Len(Val(row_values))
    THEN Val(row_values)[col] ELSE CNone

\* rows_data.get(r): PyNone when the row is not stored
RowGet(rows_data, r) == IF r \in DOMAIN rows_data THEN Some(rows_data[r]) ELSE PyNone

\* the dictionary row_data built by the column loops (lines 232-234 and
\* 265-267), in insertion order: one <<letter, rendered value>> per column
RowData(headers, row_values) ==
    [c \in 1..MAX_COL |-> <<headers[c].letter, Render(CellAt(row_values, c))>>]

\* data[letter] of such a dictionary
DataGet(data, letter) ==
    LET i == CHOOSE i \in 1..Len(data) : data[i][1] = letter IN data[i][2]

\* get_cell with the column used as a 0-based index without the "- 1"
GetCell_ColShift(rows_ref, headers_ref, max_row, col, row) ==
    IF row < DATA_START_ROW \/ row > max_row
    THEN [status |-> 400, error |-> "row out of range"]
    ELSE [status |-> 200, col |-> col, row |-> row,
          header |-> Val(HeadersOf(headers_ref))[col].name,
          value |-> Render(CellAt(RowGet(Val(RowsOf(rows_ref)), row), col + 1))]

\* get_cell without the row test of line 198
GetCell_NoRowCheck(rows_ref, headers_ref, max_row, col, row) ==
    [status |-> 200, col |-> col, row |-> row,
     header |-> Val(HeadersOf(headers_ref))[col].name,
     value |-> Render(CellAt(RowGet(Val(RowsOf(rows_ref)), row), col))]

\* get_cell, lines 197-207, on what get_data() returned (references to
\* the parsed objects, or None) and the max_row read from the cache
GetCell(rows_ref, headers_ref, max_row, col, row) ==
    LET rows_data == RowsOf(rows_ref)
        headers == HeadersOf(headers_ref)
    IN  IF row < DATA_START_ROW \/ row > max_row
        THEN [status |-> 400, error |-> "row out of range"]
        ELSE IF IsNone(rows_data)
        THEN [status |-> 500, error |-> "AttributeError: rows_data"]
        ELSE IF IsNone(headers)
        THEN [status |-> 500, error |-> "TypeError: headers"]
        ELSE [status |-> 200, col |-> col, row |-> row,
              header |-> Val(headers)[col].name,
              value |-> Render(CellAt(RowGet(Val(rows_data), row), col))]

\* the span cap with ">=" in place of ">" and one row less
RangeEnd_CapShort(row_start, row_end, max_row) ==
    LET e == Min(row_end, max_row)
    IN  IF e - row_start >= MAX_SPAN THEN row_start + MAX_SPAN - 1 ELSE e

\* the clamp to max_row left out
RangeEnd_NoClamp(row_start, row_end, max_row) ==
    IF row_end - row_start > MAX_SPAN THEN row_start + MAX_SPAN ELSE row_end

\* get_range, lines 254-259: the bounds actually used
RangeEnd(row_start, row_end, max_row) ==
    LET e == Min(row_end, max_row)
    IN  IF e - row_start > MAX_SPAN THEN row_start + MAX_SPAN ELSE e

\* get_range with "range(row_start, row_end)": the last row left out
GetRange_ExclusiveEnd(rows_ref, headers_ref, max_row, req_start, req_end) ==
    LET rows_data == RowsOf(rows_ref)
        headers == HeadersOf(headers_ref)
        row_start == Max(req_start, DATA_START_ROW)
        row_end == RangeEnd(row_start, req_end, max_row)
        n == Max(row_end - row_start, 0)
    IN  [status |-> 200, row_start |-> row_start, row_end |-> row_end,
         headers |-> headers_ref,
         rows |-> [i \in 1..n |->
                     [row |-> row_start + i - 1,
                      data |-> RowData(Val(headers),
                                       RowGet(Val(rows_data), row_start + i - 1))]]]

\* get_range, lines 254-275; the response carries the headers object
GetRange(rows_ref, headers_ref, max_row, req_start, req_end) ==
    LET rows_data == RowsOf(rows_ref)
        headers == HeadersOf(headers_ref)
        row_start == Max(req_start, DATA_START_ROW)
        row_end == RangeEnd(row_start, req_end, max_row)
        n == Max(row_end - row_start + 1, 0)
    IN  IF n > 0 /\ IsNone(rows_data)
        THEN [status |-> 500, error |-> "AttributeError: rows_data"]
        ELSE IF n > 0 /\ IsNone(headers)
        THEN [status |-> 500, error |-> "TypeError: headers"]
        ELSE [status |-> 200, row_start |-> row_start, row_end |-> row_end,
              headers |-> headers_ref,
              rows |-> [i \in 1..n |->
                          [row |-> row_start + i - 1,
                           data |-> RowData(Val(headers),
                                            RowGet(Val(rows_data), row_start + i - 1))]]]

\* the float normalisation left out
SearchText_Raw(b_val) == PyStr(b_val)

\* api_search line 229: the text the query is matched against
SearchText(b_val) ==
    IF b_val.t = "float" /\ b_val.n % 10 = 0 THEN IntStr(b_val.n \div 10)
    ELSE PyStr(b_val)

\* api_search lines 222-230: row r is stored, has a B value, and it matches
Matches(rows_data, r, query) ==
    /\ r \in DOMAIN rows_data
    /\ Len(rows_data[r]) > 0
    /\ rows_data[r][2] # CNone
    /\ Contains(Strip(SearchText(rows_data[r][2])), query)

\* the list "matched" the loop over range(lo, hi + 1) appends: the entries
\* of the matching rows in ascending order (the range is split in halves to
\* keep the recursion shallow)
RECURSIVE SearchLoop(_, _, _, _, _)
SearchLoop(rows_data, headers, query, lo, hi) ==
    IF lo > hi THEN <<>>
    ELSE IF lo = hi
    THEN IF Matches(rows_data, lo, query)
         THEN <<[row |-> lo, data |-> RowData(headers, Some(rows_data[lo]))]>>
         ELSE <<>>
    ELSE LET mid == (lo + hi) \div 2
         IN  SearchLoop(rows_data, headers, query, lo, mid)
                \o SearchLoop(rows_data, headers, query, mid + 1, hi)

\* api_search, lines 218-242; the response carries the headers object
Search(rows_ref, headers_ref, max_row, query) ==
    LET rows_data == RowsOf(rows_ref)
        headers == HeadersOf(headers_ref)
    IN  IF max_row >= DATA_START_ROW /\ IsNone(rows_data)
        THEN [status |-> 500, error |-> "AttributeError: rows_data"]
        ELSE IF /\ IsNone(headers)
                /\ \E r \in DATA_START_ROW..max_row : Matches(Val(rows_data), r, query)
        THEN [status |-> 500, error |-> "TypeError: headers"]
        ELSE LET matched ==
                    IF max_row < DATA_START_ROW THEN <<>>
                    ELSE SearchLoop(Val(rows_data), Val(headers), query,
                                    DATA_START_ROW, max_row)
             IN  [status |-> 200, query |-> query, count |-> Len(matched),
                  headers |-> headers_ref, rows |-> matched]

\* ------------------------------------------------------------- handlers
\* a request arrives on an idle thread
Begin(t, r) ==
    /\ pc[t] = "idle"
    /\ req' = [req EXCEPT ![t] = r]
    /\ loc' = [loc EXCEPT ![t].before = Some(cache)]

Respond(t, r) ==
    /\ resp' = [resp EXCEPT ![t] = r]
    /\ pc' = [pc EXCEPT ![t] = "done"]

EnterGetData(t) ==
    /\ pc' = [pc EXCEPT ![t] = GetDataEntry]
    /\ UNCHANGED resp

\* the response is sent; the thread is free for the next request
Return(t) ==
    /\ pc[t] = "done"
    /\ pc' = [pc EXCEPT ![t] = "idle"]
    /\ req' = [req EXCEPT ![t] = NoReq]
    /\ loc' = [loc EXCEPT ![t] = NoLoc]
    /\ resp' = [resp EXCEPT ![t] = NoResp]
    /\ fetched' = [fetched EXCEPT ![t] = FALSE]
    /\ UNCHANGED <<share_url, XLSM_PATH, cache, od, env_vars>>

\* get_cell, lines 188-196
CellStart(t, col, row) ==
    /\ Begin(t, [NoReq EXCEPT !.op = "cell", !.col = col, !.row = row])
    /\ IF col < 1 \/ col > MAX_COL
       THEN Respond(t, [status |-> 400, error |-> "col out of range"])
       ELSE EnterGetData(t)
    /\ UNCHANGED <<share_url, XLSM_PATH, cache, od, fetched, env_vars>>

\* get_cell lines 191-192, get_range lines 251-252: an argument is no integer
BadIntArgs(t, op) ==
    /\ Begin(t, [NoReq EXCEPT !.op = op])
    /\ Respond(t, [status |-> 400, error |-> "not an integer"])
    /\ UNCHANGED <<share_url, XLSM_PATH, cache, od, fetched, env_vars>>

\* get_range, lines 248-255
RangeStart(t, row_start, row_end) ==
    /\ Begin(t, [NoReq EXCEPT !.op = "range", !.row_start = row_start,
                            !.row_end = row_end])
    /\ EnterGetData(t)
    /\ UNCHANGED <<share_url, XLSM_PATH, cache, od, fetched, env_vars>>

\* api_search without the test of line 215
SearchStart_NoBlankCheck(t, q) ==
    /\ Begin(t, [NoReq EXCEPT !.op = "search", !.q = Strip(q)])
    /\ EnterGetData(t)
    /\ UNCHANGED <<share_url, XLSM_PATH, cache, od, fetched, env_vars>>

\* api_search, lines 214-218
SearchStart(t, q) ==
    /\ Begin(t, [NoReq EXCEPT !.op = "search", !.q = Strip(q)])
    /\ IF Len(Strip(q)) = 0
       THEN Respond(t, [status |-> 400, error |-> "empty query"])
       ELSE EnterGetData(t)
    /\ UNCHANGED <<share_url, XLSM_PATH, cache, od, fetched, env_vars>>

\* api_headers, line 181
HeadersStart(t) ==
    /\ Begin(t, [NoReq EXCEPT !.op = "headers"])
    /\ EnterGetData(t)
    /\ UNCHANGED <<share_url, XLSM_PATH, cache, od, fetched, env_vars>>

\* onedrive.invalidate_cache()
InvalidateCache(o) == [o EXCEPT !.data = PyNone, !.fetched_at = 0]

\* api_refresh, lines 135-136 and 141; _refresh_onedrive line 94
RefreshStart(t) ==
    /\ Begin(t, [NoReq EXCEPT !.op = "refresh"])
    /\ IF share_url
       THEN /\ od' = InvalidateCache(od)
            /\ pc' = [pc EXCEPT ![t] = "rf_clear"]
            /\ UNCHANGED resp
       ELSE /\ Respond(t, [status |-> 200, result |-> "skipped", source |-> "local"])
            /\ UNCHANGED od
    /\ UNCHANGED <<share_url, XLSM_PATH, cache, fetched, env_vars>>

\* a clearing that drops the headers and the source but keeps the rows
ClearRows_KeepRows(c) ==
    [c EXCEPT !.headers = PyNone, !.mtime = PyNone, !.source = "None"]

\* _refresh_onedrive, line 95
ClearRows(c) ==
    [c EXCEPT !.rows_data = PyNone, !.headers = PyNone, !.mtime = PyNone,
              !.source = "None"]

\* _refresh_onedrive line 95, then api_refresh line 138 calls get_data()
RfClear(t) ==
    /\ pc[t] = "rf_clear"
    /\ cache' = ClearRows(cache)
    /\ pc' = [pc EXCEPT ![t] = GetDataEntry]
    /\ UNCHANGED <<share_url, XLSM_PATH, od, fetched, req, loc, resp, env_vars>>

\* after get_data() returned: the handler reads _cache["max_row"] where it
\* uses it (lines 197, 221, 256) and builds its response
Finish(t) ==
    /\ pc[t] = "finish"
    /\ LET r == req[t]
           l == loc[t]
           m == cache.max_row
       IN  CASE r.op = "cell" ->
                  /\ loc' = [loc EXCEPT ![t].max_row = Some(m)]
                  /\ Respond(t, GetCell(l.rows_data, l.headers, m, r.col, r.row))
             [] r.op = "range" ->
                  /\ loc' = [loc EXCEPT ![t].max_row = Some(m)]
                  /\ Respond(t, GetRange(l.rows_data, l.headers, m, r.row_start, r.row_end))
             [] r.op = "search" ->
                  /\ loc' = [loc EXCEPT ![t].max_row = Some(m)]
                  /\ Respond(t, Search(l.rows_data, l.headers, m, r.q))
             [] r.op = "headers" ->
                  /\ UNCHANGED loc
                  /\ Respond(t, [status |-> 200, headers |-> l.headers])
             [] r.op = "refresh" ->
                  /\ UNCHANGED loc
                  /\ Respond(t, [status |-> 200, result |-> "refreshed",
                                 source |-> "onedrive"])
    /\ UNCHANGED <<share_url, XLSM_PATH, cache, od, fetched, req, env_vars>>

\* ------------------------------------------------------- specifications
\* the steps of a request in progress
Step(t) ==
    \/ OdCheck(t) \/ FxCheck(t) \/ FxCached(t) \/ HttpFail(t)
    \/ \E d \in EnvDocs : HttpOk(t, d)
    \/ OdParse(t) \/ RetRows(t) \/ RetHdrs(t)
    \/ LocStat(t) \/ LocCheck(t) \/ LocLoad(t)
    \/ RfClear(t) \/ Finish(t) \/ Return(t)

Environment ==
    \/ Tick
    \/ \E d \in EnvDocs : WriteFile(d)
    \/ DeleteFile

T_q123 == <<" ", "1", "2", "3">>

\* The server: requests arrive on any free thread and their steps interleave.

Start(t) ==
    \/ CellStart(t, 2, DATA_START_ROW)
    \/ RefreshStart(t)

Next == Environment \/ \E t \in Threads : Start(t) \/ Step(t)

Spec == Init /\ [][Next]_vars

\* The same server with one request in progress at a time: every sequence
\* of reads, refreshes, failures and changes of the environment.
SeqStart(t) ==
    \/ \E col \in {0, 2} : CellStart(t, col, DATA_START_ROW)
    \/ \E op \in {"cell", "range"} : BadIntArgs(t, op)
    \/ RangeStart(t, 3, 12)
    \/ \E q \in {<<>>, <<" ">>, T_q123} : SearchStart(t, q)
    \/ HeadersStart(t)
    \/ RefreshStart(t)

SeqNext == Environment \/ SeqStart("t1") \/ Step("t1")

SeqSpec == Init /\ [][SeqNext]_vars

\* The parser alone, on every worksheet of Sheets.
PwInit ==
    /\ APP_PASSWORD = ""
    /\ session = InitSession
    /\ client = "a"
    /\ share_url = FALSE
    /\ file = [exists |-> FALSE, mtime |-> 0, doc |-> "empty"]
    /\ XLSM_PATH = PyNone
    /\ cache = InitCache
    /\ od = InitOd
    /\ now = StartTime
    /\ ticks = 0
    /\ ws \in Sheets
    /\ pw = PwStart
    /\ fetched = [t \in Threads |-> FALSE]
    /\ pc = [t \in Threads |-> "idle"]
    /\ req = [t \in Threads |-> NoReq]
    /\ loc = [t \in Threads |-> NoLoc]
    /\ resp = [t \in Threads |-> NoResp]

PwNext == PwRow \/ PwReturn

PwSpec == PwInit /\ [][PwNext]_vars

\* Requests served one at a time from a cache entry a first read has built
\* (document d, still fresh): the Query Engine on every snapshot, with the
\* arguments drawn from sets that cross every bound of the handlers.
QInit ==
    /\ APP_PASSWORD = ""
    /\ session = InitSession
    /\ client = "a"
    /\ share_url \in BOOLEAN
    /\ \E d \in GoodDocs :
          IF share_url
          THEN /\ file = [exists |-> FALSE, mtime |-> 0, doc |-> "empty"]
               /\ od = [data |-> Some(d), fetched_at |-> StartTime]
               /\ cache = CacheUpdate(d, PyNone, "onedrive")
          ELSE /\ file = [exists |-> TRUE, mtime |-> 1, doc |-> d]
               /\ od = InitOd
               /\ cache = CacheUpdate(d, Some(1), "local")
    /\ XLSM_PATH = FindXlsm(file)
    /\ now = StartTime
    /\ ticks = 0
    /\ ws = <<>>
    /\ pw = PwStart
    /\ fetched = [t \in Threads |-> FALSE]
    /\ pc = [t \in Threads |-> "idle"]
    /\ req = [t \in Threads |-> NoReq]
    /\ loc = [t \in Threads |-> NoLoc]
    /\ resp = [t \in Threads |-> NoResp]

Cols == {0, 1, 2, 3, MAX_COL, MAX_COL + 1}
Rows == {HEADER_ROW, DATA_START_ROW, 7, 8, 9, 10, 110, 111}
RowStarts == {3, DATA_START_ROW, 8, 10}
RowEnds == {4, 7, 12, 109, 200}
T_q12345 == <<"1", "2", "3", "4", "5">>
T_q50 == <<"5", ".", "0">>
T_q455 == <<"4", "5", ".", "5">>
T_qzz == <<"z", "z">>
Queries == {<<>>, <<" ">>, T_q123, T_q12345, T_q50, T_q455, T_qzz}

QStart(t) ==
    \/ \E col \in Cols, row \in Rows : CellStart(t, col, row)
    \/ \E op \in {"cell", "range"} : BadIntArgs(t, op)
    \/ \E s \in RowStarts, e \in RowEnds : RangeStart(t, s, e)
    \/ \E q \in Queries : SearchStart(t, q)
    \/ HeadersStart(t)

QStep(t) ==
    \/ OdCheck(t) \/ RetRows(t) \/ RetHdrs(t)
    \/ LocStat(t) \/ LocCheck(t)
    \/ Finish(t) \/ Return(t)

QNext == QStart("t1") \/ QStep("t1")

QSpec == QInit /\ [][QNext]_vars

\* ------------------------------------------------------------ login gate
\* session.get("authenticated") of a browser's session, as a condition
SessionGet(c) ==
    ~IsNone(session[c].authenticated) /\ Val(session[c].authenticated)

\* a browser's request is the next the server accepts
Arrive(c) ==
    /\ c # client
    /\ client' = c
    /\ UNCHANGED <<APP_PASSWORD, session, share_url, XLSM_PATH, cache, od,
                   file, now, ticks, fetched, pc, req, loc, resp, ws, pw>>

\* what a login form can post: no password field, or some text
Passwords == {PyNone, Some(""), Some("pw"), Some("no")}

\* login, lines 113-122
Login(t, method, password) ==
    /\ Begin(t, [op |-> "login", method |-> method, password |-> password])
    /\ IF APP_PASSWORD = ""
       THEN /\ Respond(t, [status |-> 302, location |-> "index"])
            /\ UNCHANGED session
       ELSE IF method = "POST"
       THEN IF password = Some(APP_PASSWORD)
            THEN /\ session' = [session EXCEPT ![client].authenticated = Some(TRUE)]
                 /\ Respond(t, [status |-> 302, location |-> "index"])
            ELSE /\ Respond(t, [status |-> 200, page |-> "login.html",
                                error |-> "wrong password"])
                 /\ UNCHANGED session
       ELSE /\ Respond(t, [status |-> 200, page |-> "login.html"])
            /\ UNCHANGED session
    /\ UNCHANGED <<APP_PASSWORD, client, share_url, XLSM_PATH, cache, od,
                   file, now, ticks, fetched, ws, pw>>

\* index, line 128
IndexStart(t) ==
    /\ Begin(t, [NoReq EXCEPT !.op = "index"])
    /\ Respond(t, [status |-> 200, page |-> "index.html"])
    /\ UNCHANGED <<share_url, XLSM_PATH, cache, od, fetched, env_vars>>

\* onedrive.get_file_info(), the fetched_at it reports
GetFileInfo(o) == IF IsNone(o.data) THEN PyNone ELSE Some(o.fetched_at)

\* api_fileinfo, lines 147-175
FileinfoStart(t) ==
    /\ Begin(t, [NoReq EXCEPT !.op = "fileinfo"])
    /\ IF share_url
       THEN Respond(t, [status |-> 200, source |-> "onedrive",
                        fetched_at |-> IF IsNone(GetFileInfo(od))
                                          \/ Val(GetFileInfo(od)) = 0
                                       THEN PyNone ELSE GetFileInfo(od)])
       ELSE Respond(t, [status |-> 200, source |-> "local",
                        path |-> XLSM_PATH,
                        last_modified |-> IF ~IsNone(XLSM_PATH) /\ file.exists
                                          THEN Some(file.mtime) ELSE PyNone])
    /\ UNCHANGED <<share_url, XLSM_PATH, cache, od, fetched, env_vars>>

\* the endpoints decorated with login_required
Protected == {"index", "refresh", "fileinfo", "headers", "cell", "search", "range"}

\* the decorated view functions
View(t) == SeqStart(t) \/ IndexStart(t) \/ FileinfoStart(t)

\* redirect(url_for("login")), line 23
RedirectToLogin(t) ==
    /\ \E op \in Protected : Begin(t, [NoReq EXCEPT !.op = op])
    /\ Respond(t, [status |-> 302, location |-> "login"])
    /\ UNCHANGED <<share_url, XLSM_PATH, cache, od, fetched, env_vars>>

\* a decorator that calls the view whatever the session says
LoginRequired_Open(t) == View(t)

\* login_required.decorated, lines 21-24
LoginRequired(t) ==
    IF APP_PASSWORD # "" /\ ~SessionGet(client)
    THEN RedirectToLogin(t)
    ELSE View(t)

\* The server behind its login gate, with or without a password set, one
\* request in progress at a time, from two browsers.
GateInit ==
    /\ APP_PASSWORD \in {"", "pw"}
    /\ session = InitSession
    /\ client = "a"
    /\ share_url \in BOOLEAN
    /\ IF share_url
       THEN file = [exists |-> FALSE, mtime |-> 0, doc |-> "empty"]
       ELSE file \in {[exists |-> FALSE, mtime |-> 0, doc |-> "empty"]}
                     \cup {[exists |-> TRUE, mtime |-> 1, doc |-> d] : d \in EnvDocs}
    /\ XLSM_PATH = FindXlsm(file)
    /\ cache = InitCache
    /\ od = InitOd
    /\ now = StartTime
    /\ ticks = 0
    /\ ws = <<>>
    /\ pw = PwStart
    /\ fetched = [t \in Threads |-> FALSE]
    /\ pc = [t \in Threads |-> "idle"]
    /\ req = [t \in Threads |-> NoReq]
    /\ loc = [t \in Threads |-> NoLoc]
    /\ resp = [t \in Threads |-> NoResp]

GateNext ==
    \/ Environment
    \/ \E c \in Clients : Arrive(c)
    \/ \E method \in {"GET", "POST"}, password \in Passwords :
          Login("t1", method, password)
    \/ LoginRequired("t1")
    \/ Step("t1")

GateSpec == GateInit /\ [][GateNext]_vars

\* ---------------------------------------------------------------- claims
\* thread t has answered a request of kind op
Answered(t, op) == pc[t] = "done" /\ req[t].op = op
\* what the handler of thread t worked with
HeldRows(t) == RowsOf(loc[t].rows_data)
HeldHeaders(t) == HeadersOf(loc[t].headers)
\* the cell (col, row) of the rows thread t holds
HeldCell(t, row, col) == CellAt(RowGet(Val(HeldRows(t)), row), col)

\* a read request: its handler uses rows_data, headers and _cache["max_row"]
Reads == {"cell", "range", "search"}
\* the snapshot of a cache entry, and whether it is complete
Snapshot(c) == <<c.rows_data, c.headers, c.max_row>>
Complete(c) == ~IsNone(c.rows_data) /\ ~IsNone(c.headers)
\* the failures of a retrieval or of a parse
RebuildFailures == {"RequestException", "KeyError", "FileNotFoundError"}

\* C1: a read that has rows_data, headers and max_row in hand has all
\* three from the same parse, whatever rebuild or refresh ran beside it.
C1_SnapshotAtomic ==
    \A t \in Threads :
        (pc[t] = "done" /\ req[t].op \in Reads
            /\ ~IsNone(loc[t].max_row) /\ Complete(loc[t]))
        => \E d \in GoodDocs :
              /\ loc[t].rows_data = Some(d)
              /\ loc[t].headers = Some(d)
              /\ Val(loc[t].max_row) = Parsed[d].max_row

\* C2: on a remote source no cell, range or search request ends in the
\* dereference of a None rows_data or a None headers, and one that is
\* answered with data had a complete snapshot in hand.
C2_RefreshRaceNoCrash ==
    \A t \in Threads :
        (share_url /\ pc[t] = "done" /\ req[t].op \in Reads)
        => /\ ~(resp[t].status = 500
                /\ resp[t].error \in {"AttributeError: rows_data", "TypeError: headers"})
           /\ (resp[t].status = 200 => Complete(loc[t]))

\* C3: an operation that began with a complete snapshot in the cache and
\* whose retrieval or parse failed leaves that same snapshot (rows_data,
\* headers, max_row) in the cache.
C3_FailedRebuildKeepsSnapshot ==
    \A t \in Threads :
        (pc[t] = "done" /\ resp[t].status = 500
            /\ resp[t].error \in RebuildFailures
            /\ Complete(Val(loc[t].before)))
        => Snapshot(cache) = Snapshot(Val(loc[t].before))

\* C4: a refresh on a remote source that is answered "refreshed" has seen
\* a call of session.get between its invalidation and its answer.
C4_RefreshRefetches ==
    \A t \in Threads :
        (share_url /\ Answered(t, "refresh") /\ resp[t].status = 200)
        => fetched[t]

\* C5: on a local source a refresh request is answered "skipped" in the
\* step it arrives in and changes neither the cache entry, the fetcher's
\* cache, the resolved path nor the file; the cache entry changes only in a
\* rebuild, and a rebuild is entered only by an access that read a file
\* timestamp different from the stored marker.
C5_LocalRefreshNoop ==
    [][~share_url =>
        /\ \A t \in Threads :
              (pc[t] = "idle" /\ req'[t].op = "refresh")
              => /\ cache' = cache /\ od' = od
                 /\ XLSM_PATH' = XLSM_PATH /\ file' = file
                 /\ pc'[t] = "done"
                 /\ resp'[t] = [status |-> 200, result |-> "skipped",
                                source |-> "local"]
        /\ \A t \in Threads :
              (pc[t] # "loc_load" /\ pc'[t] = "loc_load")
              => cache.mtime # loc[t].mtime
        /\ (cache' # cache => \E t \in Threads : pc[t] = "loc_load")
      ]_vars

\* a refresh answered "skipped" although the file has changed since the
\* cache entry was built
C5_Witness ==
    \E t \in Threads :
        /\ ~share_url /\ Answered(t, "refresh")
        /\ resp[t] = [status |-> 200, result |-> "skipped", source |-> "local"]
        /\ Complete(cache) /\ file.exists /\ cache.mtime # Some(file.mtime)
        /\ loc[t].before = Some(cache)

\* C6: for every column in 1..MAX_COL and every row from DATA_START_ROW to
\* the effective last row, getCell answers with the value that getRange, on
\* the same snapshot, reports for that row under the column's header letter.
C6_CellEqualsRange ==
    \A t \in Threads :
        (/\ Answered(t, "cell")
         /\ ~IsNone(loc[t].max_row)
         /\ req[t].col \in 1..MAX_COL
         /\ req[t].row \in DATA_START_ROW..Val(loc[t].max_row))
        => LET rg == GetRange(loc[t].rows_data, loc[t].headers, Val(loc[t].max_row),
                              req[t].row, req[t].row)
           IN  /\ resp[t].status = 200
               /\ rg.status = 200
               /\ Len(rg.rows) = 1
               /\ rg.rows[1].row = req[t].row
               /\ DataGet(rg.rows[1].data, Val(HeldHeaders(t))[req[t].col].letter)
                     = resp[t].value

C6_Witness ==
    \E t \in Threads :
        /\ Answered(t, "cell")
        /\ resp[t].status = 200
        /\ req[t].col = MAX_COL
        /\ resp[t].value = Some(T_z)

\* C7 as stated: whenever the requested row_end - row_start exceeds 100, the
\* echoed row_end is the echoed row_start + 100.
C7_RequestedSpan ==
    \A t \in Threads :
        (/\ Answered(t, "range")
         /\ resp[t].status = 200
         /\ req[t].row_end - req[t].row_start > 100)
        => resp[t].row_end = resp[t].row_start + 100

\* C7 amended: whenever the span left after clamping (requested row_end cut
\* down to max_row, requested row_start raised to DATA_START_ROW) exceeds
\* 100, the echoed row_end is the echoed row_start + 100.
C7_ClampedSpan ==
    \A t \in Threads :
        (/\ Answered(t, "range")
         /\ resp[t].status = 200
         /\ Min(req[t].row_end, Val(loc[t].max_row))
               - Max(req[t].row_start, DATA_START_ROW) > 100)
        => resp[t].row_end = resp[t].row_start + 100

C7_Witness ==
    \E t \in Threads :
        /\ Answered(t, "range")
        /\ resp[t].status = 200
        /\ req[t].row_start = 8
        /\ req[t].row_end = 200
        /\ resp[t].row_end = 108
        /\ Len(resp[t].rows) = 101

\* C8: the echoed row_start is max(requested row_start, DATA_START_ROW); the
\* echoed row_end is at most the max_row of the snapshot the rows come from,
\* and equals it when the requested row_end is above it and the span cap
\* does not apply.
C8_RangeClamped ==
    \A t \in Threads :
        (Answered(t, "range") /\ resp[t].status = 200 /\ ~IsNone(loc[t].rows_data))
        => LET last == Parsed[Val(loc[t].rows_data)].max_row
           IN  /\ resp[t].row_start = Max(req[t].row_start, DATA_START_ROW)
               /\ resp[t].row_end <= last
               /\ (req[t].row_end > last /\ last - resp[t].row_start <= 100)
                     => resp[t].row_end = last

C8_Witness ==
    \E t \in Threads :
        /\ Answered(t, "range")
        /\ resp[t].status = 200
        /\ req[t].row_start = 3
        /\ req[t].row_end = 12
        /\ resp[t].row_start = DATA_START_ROW
        /\ resp[t].row_end = 9

\* the text of a cell value as the claim words it: an integral float
\* without fractional part, any other value as Python prints it
C9_Text(v) ==
    IF v.t = "float" /\ v.n % 10 = 0 THEN IntStr(v.n \div 10) ELSE PyStr(v)

\* the rendering C9 asks for: null for an absent cell, the text otherwise
C9_Rendered(v) == IF v = CNone THEN PyNone ELSE Some(C9_Text(v))

\* C9: getCell and getRange render an integral float without fractional
\* part, a non-integral float with it, an absent cell as null, and 0 and
\* false as values.
C9_Rendering ==
    \A t \in Threads :
        /\ (Answered(t, "cell") /\ resp[t].status = 200)
              => resp[t].value = C9_Rendered(HeldCell(t, req[t].row, req[t].col))
        /\ (Answered(t, "range") /\ resp[t].status = 200)
              => \A i \in 1..Len(resp[t].rows) : \A c \in 1..MAX_COL :
                    resp[t].rows[i].data[c][2]
                       = C9_Rendered(HeldCell(t, resp[t].rows[i].row, c))

\* the rows C10 expects: stored, within [DATA_START_ROW, max_row], with a
\* B cell whose normalised and trimmed text contains the query
C10_Expected(t) ==
    LET rows == Val(HeldRows(t))
    IN  {r \in DATA_START_ROW..Val(loc[t].max_row) :
            /\ r \in DOMAIN rows
            /\ rows[r][2] # CNone
            /\ Contains(Strip(C9_Text(rows[r][2])), req[t].q)}

\* C10: a search with a non-empty trimmed query answers with exactly the
\* expected rows, in strictly ascending order, count being their number;
\* with no match it answers count 0 and an empty list, not an error.
C10_SearchExact ==
    \A t \in Threads :
        (Answered(t, "search") /\ Len(req[t].q) > 0)
        => /\ resp[t].status = 200
           /\ {resp[t].rows[i].row : i \in 1..Len(resp[t].rows)} = C10_Expected(t)
           /\ \A i \in 1..(Len(resp[t].rows) - 1) :
                 resp[t].rows[i].row < resp[t].rows[i + 1].row
           /\ resp[t].count = Len(resp[t].rows)
           /\ resp[t].count = Cardinality(C10_Expected(t))

C10_Witness ==
    \E t \in Threads :
        /\ Answered(t, "search")
        /\ resp[t].status = 200
        /\ resp[t].count = 2
        /\ resp[t].rows[1].row = 6
        /\ resp[t].rows[2].row = 7

\* C11: a cell request whose column is outside 1..MAX_COL or whose row is
\* outside DATA_START_ROW..max_row of the snapshot in the cache is answered
\* 400 without a value; every other cell request is answered 200 with the
\* name of the column's header and the rendered value, or null, of the cell.
C11_CellRangeError ==
    \A t \in Threads :
        (Answered(t, "cell") /\ Complete(cache))
        => LET d == Val(cache.rows_data)
               last == Parsed[d].max_row
               in_range == /\ req[t].col \in 1..MAX_COL
                           /\ req[t].row \in DATA_START_ROW..last
           IN  IF in_range
               THEN /\ resp[t].status = 200
                    /\ resp[t].header
                          = HeaderName(CellOf(d, HEADER_ROW, req[t].col),
                                       ColumnLetter(req[t].col))
                    /\ resp[t].value = Render(CellOf(d, req[t].row, req[t].col))
               ELSE /\ resp[t].status = 400
                    /\ "value" \notin DOMAIN resp[t]

\* a cell request one row below the last row, answered with the range error
C11_Witness ==
    \E t \in Threads :
        /\ Answered(t, "cell") /\ Complete(cache)
        /\ req[t].col \in 1..MAX_COL
        /\ req[t].row = Parsed[Val(cache.rows_data)].max_row + 1
        /\ resp[t] = [status |-> 400, error |-> "row out of range"]

\* C12: a search whose query is empty after trimming is answered 400, with
\* no result list, in the step it arrives in; that step leaves the cache
\* entry, the fetcher's cache and the resolved path as they were and calls
\* neither the fetcher nor the parser.
C12_BlankSearch ==
    [][\A t \in Threads :
          (pc[t] = "idle" /\ req'[t].op = "search" /\ req'[t].q = <<>>)
          => /\ pc'[t] = "done"
             /\ resp'[t].status = 400
             /\ DOMAIN resp'[t] = {"status", "error"}
             /\ cache' = cache /\ od' = od /\ XLSM_PATH' = XLSM_PATH
             /\ fetched' = fetched
      ]_vars

\* a blank search answered 400 while the cache entry is stale, so that an
\* access of the cache would have rebuilt it
C12_Witness ==
    \E t \in Threads :
        /\ Answered(t, "search") /\ req[t].q = <<>>
        /\ resp[t] = [status |-> 400, error |-> "empty query"]
        /\ share_url /\ Complete(cache) /\ ~IsCacheFresh
        /\ loc[t].before = Some(cache)

\* the cache entry holds rows_data, headers and max_row of one parse
OneParse(c) ==
    \E d \in GoodDocs : Snapshot(c) = <<Some(d), Some(d), Parsed[d].max_row>>

\* C13: on a local source, with one request at a time, an access that has
\* read the file's timestamp goes on to parse the file exactly when that
\* timestamp differs from the stored marker or the source is not "local";
\* the cache entry changes in no other step than that parse; and when
\* get_data() returns, the marker is the timestamp the access read, the
\* source is "local", the entry holds the triple of one parse and the
\* caller is handed that entry's rows_data and headers.
C13_LocalStrategy ==
    [][~share_url =>
        /\ \A t \in Threads :
              (pc[t] = "loc_check" /\ pc'[t] # "loc_check")
              => /\ pc'[t] \in {"loc_load", "ret_rows"}
                 /\ pc'[t] = "loc_load"
                       <=> (cache.mtime # loc[t].mtime \/ cache.source # "local")
        /\ (cache' # cache => \E t \in Threads : pc[t] = "loc_load")
        /\ \A t \in Threads :
              (pc[t] # "finish" /\ pc'[t] = "finish")
              => /\ cache'.mtime = loc'[t].mtime
                 /\ ~IsNone(cache'.mtime)
                 /\ cache'.source = "local"
                 /\ OneParse(cache')
                 /\ loc'[t].rows_data = cache'.rows_data
                 /\ loc'[t].headers = cache'.headers
      ]_vars

\* an access that found a cache entry built at timestamp 1, read timestamp
\* 2 and returned with the entry rebuilt
C13_Witness ==
    \E t \in Threads :
        /\ ~share_url /\ pc[t] = "finish"
        /\ Val(loc[t].before).mtime = Some(1)
        /\ Val(loc[t].before).source = "local"
        /\ loc[t].mtime = Some(2)
        /\ cache.mtime = Some(2)
        /\ cache.rows_data # Val(loc[t].before).rows_data

\* the fetcher holds bytes fetched less than CACHE_TTL ago
FetcherFresh == ~IsNone(od.data) /\ now - od.fetched_at < CACHE_TTL
\* thread t takes a step from position p
Leaves(t, p) == pc[t] = p /\ pc'[t] # p

\* C14: on a remote source an access takes the cached path exactly when the
\* source is "onedrive", rows_data is not None and the fetcher holds bytes
\* younger than CACHE_TTL; on that path it hands out the entry's rows_data
\* and headers and touches neither the cache entry nor the fetcher.  In
\* every other case it asks the fetcher, which hands out its bytes when
\* they are fresh and downloads otherwise, and a parse that succeeds
\* replaces the whole entry by the snapshot of those bytes; nothing else
\* but a refresh changes the entry.
C14_RemoteStrategy ==
    [][share_url => \A t \in Threads :
        /\ Leaves(t, "od_check")
              => /\ pc'[t] \in {"ret_rows", "fx_check"}
                 /\ pc'[t] = "ret_rows"
                       <=> (/\ cache.source = "onedrive"
                            /\ ~IsNone(cache.rows_data)
                            /\ FetcherFresh)
        /\ (Leaves(t, "od_check") \/ Leaves(t, "ret_rows") \/ Leaves(t, "ret_hdrs"))
              => cache' = cache /\ od' = od /\ fetched' = fetched
        /\ Leaves(t, "ret_rows") => loc'[t].rows_data = cache.rows_data
        /\ Leaves(t, "ret_hdrs") => loc'[t].headers = cache.headers
        /\ Leaves(t, "fx_check")
              => /\ cache' = cache /\ od' = od
                 /\ IF FetcherFresh
                    THEN pc'[t] = "fx_cached" /\ fetched' = fetched
                    ELSE pc'[t] = "http_get" /\ fetched'[t]
        /\ (Leaves(t, "fx_cached") /\ pc'[t] = "od_parse")
              => loc'[t].buf = od.data /\ od' = od /\ cache' = cache
        /\ (Leaves(t, "http_get") /\ pc'[t] = "od_parse")
              => /\ od' = [data |-> loc'[t].buf, fetched_at |-> now]
                 /\ ~IsNone(loc'[t].buf)
                 /\ cache' = cache
        /\ (Leaves(t, "od_parse") /\ pc'[t] = "finish")
              => /\ cache' = [rows_data |-> loc[t].buf, headers |-> loc[t].buf,
                              max_row |-> Parsed[Val(loc[t].buf)].max_row,
                              mtime |-> PyNone, source |-> "onedrive"]
                 /\ loc'[t].rows_data = loc[t].buf
                 /\ loc'[t].headers = loc[t].buf
        /\ (cache' # cache
              => \E u \in Threads : pc[u] \in {"od_parse", "rf_clear"})
      ]_vars

\* a read that got its rows and headers on the cached path, with no call of
\* the fetcher, from an entry built by an earlier request
C14_Witness ==
    \E t \in Threads :
        /\ share_url /\ pc[t] = "finish" /\ req[t].op \in Reads
        /\ IsNone(loc[t].buf) /\ ~fetched[t]
        /\ Complete(loc[t])
        /\ loc[t].rows_data = cache.rows_data
        /\ loc[t].before = Some(cache)
        /\ FetcherFresh

\* the Row Store invariant of a parse result
RowStoreInv(rows_data, max_row) ==
    /\ \A r \in DOMAIN rows_data :
          /\ HEADER_ROW <= r /\ r <= max_row
          /\ \E c \in 1..MAX_COL : rows_data[r][c] # CNone
    /\ IF DOMAIN rows_data = {} THEN max_row = HEADER_ROW
       ELSE max_row \in DOMAIN rows_data

\* C15: when the parser returns, every key of rows_data lies in
\* HEADER_ROW..max_row, every stored row has a cell that is not None,
\* max_row is the largest key (HEADER_ROW when there is none), and the
\* stored rows are exactly the rows of the sheet that are not all-None,
\* those holding only 0 or only False included; the snapshots the server
\* works with satisfy the same invariant.
C15_RowStore ==
    /\ pw.returned
          => /\ RowStoreInv(pw.rows_data, pw.max_data_row)
             /\ DOMAIN pw.rows_data
                   = {HEADER_ROW + i - 1 : i \in {j \in 1..Len(ws) : ws[j] # "none"}}
             /\ \A r \in DOMAIN pw.rows_data :
                   pw.rows_data[r] = RowOfKind(ws[r - HEADER_ROW + 1])
    /\ \A d \in GoodDocs : RowStoreInv(Parsed[d].rows_data, Parsed[d].max_row)

\* the parse of a sheet whose rows are: text, all-None, only 0
C15_Witness ==
    /\ pw.returned
    /\ ws = <<"text", "none", "zero">>
    /\ DOMAIN pw.rows_data = {HEADER_ROW, HEADER_ROW + 2}
    /\ pw.max_data_row = HEADER_ROW + 2

\* C16: on a local source, with one request at a time, an access that
\* finds no workbook file is answered with the error in that step, and
\* a request that ended with FileNotFoundError has left every field of
\* the cache entry as it was when the request arrived.
C16_MissingFile ==
    /\ [][~share_url => \A t \in Threads :
            (Leaves(t, "loc_stat") /\ ~file.exists)
            => /\ pc'[t] = "done"
               /\ resp'[t] = [status |-> 500, error |-> "FileNotFoundError"]
               /\ cache' = cache
         ]_vars
    /\ [](\A t \in Threads :
            (~share_url /\ pc[t] = "done" /\ resp[t].status = 500
                /\ resp[t].error = "FileNotFoundError")
            => cache = Val(loc[t].before))

\* a request that failed on the missing file while the cache entry held
\* a snapshot, which is still there
C16_Witness ==
    \E t \in Threads :
        /\ ~share_url /\ pc[t] = "done" /\ req[t].op \in Reads
        /\ resp[t] = [status |-> 500, error |-> "FileNotFoundError"]
        /\ ~file.exists
        /\ Complete(cache) /\ cache.source = "local"
        /\ cache = Val(loc[t].before)

\* C17: on a remote source a refresh is answered "refreshed" only by a
\* request that has called session.get since its invalidation and has
\* rebuilt the cache entry from the bytes it got, and at the moment of
\* that answer the cache entry has source "onedrive", holds the rows_data
\* and headers of those bytes, and the fetcher reports fresh; a refresh
\* whose retrieval or parse fails is answered with the error.
C17_RefreshSynchronous ==
    [][share_url => \A t \in Threads :
        (req[t].op = "refresh" /\ pc[t] # "done" /\ pc'[t] = "done")
        => IF resp'[t].status = 200
           THEN /\ resp'[t].result = "refreshed"
                /\ pc[t] = "finish"
                /\ fetched[t]
                /\ ~IsNone(loc[t].buf)
                /\ cache.source = "onedrive"
                /\ cache.rows_data = loc[t].buf
                /\ cache.headers = loc[t].buf
                /\ FetcherFresh
           ELSE /\ resp'[t].status = 500
                /\ resp'[t].error \in RebuildFailures \cup {"AttributeError: data"}
      ]_vars

\* C18: the rows of a range response are one entry for each index from the
\* echoed row_start to the echoed row_end, in ascending order, each with
\* MAX_COL columns under the header letters; an index with no stored row
\* has every column null; there are at most MAX_SPAN + 1 entries, and none
\* when the echoed row_end is below the echoed row_start.
C18_RangeRows ==
    \A t \in Threads :
        (Answered(t, "range") /\ resp[t].status = 200)
        => LET rows == resp[t].rows
               first == resp[t].row_start
               last == resp[t].row_end
           IN  /\ Len(rows) = IF last < first THEN 0 ELSE last - first + 1
               /\ Len(rows) <= MAX_SPAN + 1
               /\ \A i \in 1..Len(rows) :
                     /\ rows[i].row = first + i - 1
                     /\ Len(rows[i].data) = MAX_COL
                     /\ \A c \in 1..MAX_COL :
                           /\ rows[i].data[c][1] = ColumnLetter(c)
                           /\ rows[i].row \notin DOMAIN Val(HeldRows(t))
                                 => rows[i].data[c][2] = PyNone

\* the range 8..12 on the sheet whose last row is 9 and whose row 8 is
\* empty: two entries, the first with every column null
C18_Witness ==
    \E t \in Threads :
        /\ Answered(t, "range") /\ resp[t].status = 200
        /\ req[t].row_start = 8 /\ req[t].row_end = 12
        /\ resp[t].row_end = 9
        /\ Len(resp[t].rows) = 2
        /\ resp[t].rows[1].row = 8
        /\ 8 \notin DOMAIN Val(HeldRows(t))
        /\ \A c \in 1..MAX_COL : resp[t].rows[1].data[c][2] = PyNone

\* a range whose clamped row_end is below its row_start, answered with no
\* rows
C18_Empty ==
    \E t \in Threads :
        /\ Answered(t, "range") /\ resp[t].status = 200
        /\ resp[t].row_end < resp[t].row_start
        /\ resp[t].rows = <<>>

\* C19: with one request served at a time, whatever the reads, refreshes
\* and failures: whenever the cache entry holds rows, it holds headers of
\* MAX_COL entries from the same parse, its source is "local" or
\* "onedrive" and its max_row is the one of that parse; an entry of source
\* "local" has its mtime marker set and an entry of source "onedrive" has
\* none.
C19_CacheCoherent ==
    /\ ~IsNone(cache.rows_data)
         => /\ ~IsNone(cache.headers)
            /\ Len(Val(HeadersOf(cache.headers))) = MAX_COL
            /\ cache.headers = cache.rows_data
            /\ cache.source \in {"local", "onedrive"}
            /\ cache.max_row = Parsed[Val(cache.rows_data)].max_row
    /\ cache.source = "local" => ~IsNone(cache.mtime)
    /\ cache.source = "onedrive" => IsNone(cache.mtime)

\* a populated remote entry that outlived a failed request
C19_Witness ==
    \E t \in Threads :
        /\ pc[t] = "done" /\ resp[t].status = 500
        /\ share_url
        /\ ~IsNone(cache.rows_data)
        /\ cache.source = "onedrive"

\* a populated local entry, marked with the file's time, seen by a
\* finished request
C19_Local ==
    \E t \in Threads :
        /\ pc[t] = "done" /\ resp[t].status = 200
        /\ ~share_url
        /\ ~IsNone(cache.rows_data)
        /\ cache.source = "local"
        /\ cache.mtime = Some(file.mtime)

\* C20: with APP_PASSWORD set, a browser's session becomes authenticated
\* only in a step that answers a login POST of that browser whose password
\* equals APP_PASSWORD; and a request to a protected endpoint from a
\* browser whose session is not authenticated is answered in one step by
\* the redirect to login, with nothing else in the response, nothing read
\* into the handler and the cache entry and the fetcher's left as they
\* were.
C20_LoginGate ==
    [][APP_PASSWORD # ""
       => /\ \A c \in Clients :
               (SessionGet(c)' /\ ~SessionGet(c))
               => /\ c = client
                  /\ \E t \in Threads :
                        /\ pc[t] = "idle" /\ pc'[t] = "done"
                        /\ req'[t].op = "login"
                        /\ req'[t].method = "POST"
                        /\ req'[t].password = Some(APP_PASSWORD)
          /\ \A t \in Threads :
               (/\ pc[t] = "idle" /\ pc'[t] # "idle"
                /\ req'[t].op \in Protected
                /\ ~SessionGet(client))
               => /\ pc'[t] = "done"
                  /\ resp'[t] = [status |-> 302, location |-> "login"]
                  /\ loc'[t] = [NoLoc EXCEPT !.before = Some(cache)]
                  /\ cache' = cache
                  /\ od' = od
      ]_vars

\* with one browser logged in and the cache entry populated, a request of
\* the other browser for a cell has been redirected to the login page
C20_Witness ==
    \E t \in Threads :
        /\ APP_PASSWORD # ""
        /\ Answered(t, "cell")
        /\ resp[t] = [status |-> 302, location |-> "login"]
        /\ ~SessionGet(client)
        /\ \E c \in Clients : SessionGet(c)
        /\ ~IsNone(cache.rows_data)

====
